---- MODULE Spec2Model ----
(***************************************************************************)
(* Verification model of the agri-ai frontend: the disease-detection       *)
(* pipeline (TFLiteService, AgricultureAPI, ApiClient error mapping and    *)
(* DiseaseDetectionPage), the localforage-backed CacheService, the         *)
(* location cache key, the treatment-table label resolver, the requests    *)
(* of ApiClient with their timeout, the image preprocessor, the cached     *)
(* queries of the prediction pages, the severity badge, the profit         *)
(* calculator card, NumericInput and the redux appSlice.                   *)
(*                                                                         *)
(* Each component has its own next-state relation and specification; the   *)
(* variables of the other components stay at their initial values.         *)
(***************************************************************************)
EXTENDS Integers, Sequences, FiniteSets, TLC

VARIABLES
    \* ---- TFLiteService (services/cacheService.ts 76-200)
    modelLoaded,     \* TFLiteService.modelLoaded
    loaders,         \* in-flight loadDiseaseModel() calls: slot -> position
    loadSettled,     \* history: the last loadDiseaseModel() call to settle
    \* ---- DiseaseDetectionPage (pages/DiseaseDetectionPage.tsx 17-97)
    selectedImage,   \* useState<File | null>: 0 is null, else the file id
    imagePreview,    \* useState<string | null>: 0 is null, else the file id read
    pendingReads,    \* FileReader.readAsDataURL calls whose onload has not fired
    isLoading,       \* useState(false)
    result,          \* useState<DiseaseDetectionResponse | null>
    error,           \* useState<string | null>
    toast,           \* the last react-hot-toast notification shown
    calls,           \* in-flight detectDisease handlers: slot -> record
    settled,         \* history: the classification settled by the last step
    \* ---- CacheService (services/cacheService.ts 9-70)
    store,           \* the localforage instance: key -> CacheItem or NoItem
    now,             \* Date.now()
    ops,             \* the CacheService calls suspended at an await
    lastOn,          \* history: key -> the last call completed on it, while undisturbed
    returned,        \* history: the CacheService call completed by the last step
    \* ---- generateLocationKey (services/cacheService.ts 64-69)
    keyArgs,         \* the argument lists of the calls made so far
    keyOut,          \* the keys they returned
    \* ---- getTreatmentInfo (data/diseaseTreatments.ts 692-725)
    rawKey,          \* the diseaseKey argument, a sequence of atoms
    resolved,        \* the value returned, or Pending before the call
    \* ---- ApiClient (api/client.ts 22-110) and its callers
    requests,        \* the requests in flight: slot -> record
    clientOut,       \* history: the request settled by the last step
    \* ---- TFLiteService.preprocessImage (services/cacheService.ts 116-152)
    imgCall,         \* the preprocessImage call waiting for img.onload / onerror
    imgOut,          \* history: what the promise of the last call settled with
    \* ---- the cached queries (pages/YieldPredictionPage.tsx 56-88)
    queries,         \* the queryFn runs suspended at an await: slot -> record
    queryOut,        \* history: the queryFn run that settled in the last step
    \* ---- the severity badge (pages/DiseaseDetectionPage.tsx 272-316)
    shownKey,        \* result.predicted_disease, a key of diseaseTreatments, or none
    badge,           \* the class string of the severity badge on screen
    badgeFresh,      \* whether the page has rendered since the last setResult
    \* ---- ProfitCalculatorCard (components/ProfitCalculatorCard.tsx 20-198)
    profitCoords,    \* useState customCoordinates: lat, lon, useCustom
    profitLocation,  \* location of useGeolocation, or null
    profitDistrict,  \* formData.district
    profitResult,    \* useState<ProfitCalculatorResult | null>
    profitLoading,   \* useState(false)
    profitError,     \* useState<string | null>
    profitCalls,     \* calculateProfitSustainability calls in flight
    \* ---- NumericInput on the crop form (components/NumericInput.tsx 26-36)
    numericForm,     \* formData.nitrogen, phosphorus, potassium and ph, in tenths
    numericChange,   \* history: the last edit and the onChange call it made
    \* ---- appSlice (services/cacheService.ts 204-250)
    appState,        \* the state of the slice
    appLast          \* history: the type of the last action and the state it was applied to

classifyVars == <<modelLoaded, loaders, loadSettled, selectedImage, imagePreview, pendingReads,
                  isLoading, result, error, toast, calls, settled>>
cacheVars    == <<store, now, ops, lastOn, returned>>
keyVars      == <<keyArgs, keyOut>>
labelVars    == <<rawKey, resolved>>
clientVars   == <<requests, clientOut>>
imageVars    == <<imgCall, imgOut>>
queryVars    == <<queries, queryOut>>
severityVars == <<shownKey, badge, badgeFresh>>
profitVars   == <<profitCoords, profitLocation, profitDistrict, profitResult, profitLoading, profitError, profitCalls>>
numericVars  == <<numericForm, numericChange>>
appVars      == <<appState, appLast>>
vars         == <<classifyVars, cacheVars, keyVars, labelVars, clientVars, imageVars,
                  queryVars, severityVars, profitVars, numericVars, appVars>>

\* what the steps of one component leave alone
notClassify == <<cacheVars, keyVars, labelVars, clientVars, imageVars, queryVars, severityVars, profitVars, numericVars, appVars>>
notCache    == <<classifyVars, keyVars, labelVars, clientVars, imageVars, queryVars, severityVars, profitVars, numericVars, appVars>>
notKey      == <<classifyVars, cacheVars, labelVars, clientVars, imageVars, queryVars, severityVars, profitVars, numericVars, appVars>>
notLabel    == <<classifyVars, cacheVars, keyVars, clientVars, imageVars, queryVars, severityVars, profitVars, numericVars, appVars>>
notClient   == <<classifyVars, cacheVars, keyVars, labelVars, imageVars, queryVars, severityVars, profitVars, numericVars, appVars>>
notImage    == <<classifyVars, cacheVars, keyVars, labelVars, clientVars, queryVars, severityVars, profitVars, numericVars, appVars>>
notQuery    == <<classifyVars, ops, lastOn, returned, keyVars, labelVars, clientVars, imageVars, severityVars, profitVars, numericVars, appVars>>
notSeverity == <<classifyVars, cacheVars, keyVars, labelVars, clientVars, imageVars, queryVars, profitVars, numericVars, appVars>>
notProfit   == <<classifyVars, cacheVars, keyVars, labelVars, clientVars, imageVars, queryVars, severityVars, numericVars, appVars>>
notNumeric  == <<classifyVars, cacheVars, keyVars, labelVars, clientVars, imageVars, queryVars, severityVars, profitVars, appVars>>
notApp      == <<classifyVars, cacheVars, keyVars, labelVars, clientVars, imageVars, queryVars, severityVars, profitVars, numericVars>>

(***************************************************************************)
(* Bounds of the model.                                                    *)
(***************************************************************************)
MaxImages  == 2      \* distinct image files the user can pick
MaxCalls   == 2      \* handler slots of DiseaseDetectionPage.detectDisease
MaxLoaders == 2      \* concurrent callers of loadDiseaseModel
MaxTime    == 1      \* Date.now() runs over 0..MaxTime
MaxKeyCalls == 2     \* generateLocationKey calls whose keys are compared
MaxPieces  == 7      \* tokens and whitespace characters of a raw label key
MaxRequests == 1     \* ApiClient requests in flight at the same time
TickMs     == 15000  \* the step of the clock the axios timeout is measured on
MaxPixelKinds == 3   \* distinct channel values in one canvas raster
MaxQueries == 2      \* queryFn runs suspended at the same time
MaxProfitCalls == 2  \* handleSubmit runs of ProfitCalculatorCard suspended at the same time
MaxQueryTime == 2    \* the clock of the cached queries runs over 0..MaxQueryTime, in units of ten minutes

Images  == 1..MaxImages
Calls   == 1..MaxCalls
Loaders == 1..MaxLoaders

\* the cache keys in use: one of each of the two cached queries
Keys == {"crop-recommendation-19.07-72.87", "yield-prediction-19.07-72.87"}

(***************************************************************************)
(* JavaScript values.  Strings are TLA+ strings, with Undefined for a      *)
(* missing property; null state is the record Null.                        *)
(***************************************************************************)
Undefined == "<undefined>"
Null      == [null |-> TRUE]
NoError   == "<null>"
NoImage   == 0

Truthy(s) == s # Undefined /\ s # ""


(***************************************************************************)
(* The HTTP collaborator.  A response is what axios hands to the client:   *)
(* no response at all (transport failure or the 30 s timeout), a request   *)
(* that could not be set up, or a status with a JSON body.                 *)
(***************************************************************************)
Body(d, m, p, hc, c) ==
    [detail |-> d, message |-> m, prediction |-> p, hasConfidence |-> hc, confidence |-> c]

ErrorBodies ==
    { Body(d, m, Undefined, FALSE, 0) :
        d \in {Undefined, "", "model overloaded"}, m \in {Undefined, "bad request"} }

OkBodies ==
    { Body(Undefined, Undefined, p, hc, 98765) :
        p \in {Undefined, "Apple___Apple_scab"}, hc \in BOOLEAN }

Responses ==
    { [type |-> "none", status |-> 0, body |-> Body(Undefined, Undefined, Undefined, FALSE, 0)],
      [type |-> "setup", status |-> 0, body |-> Body(Undefined, "bad config", Undefined, FALSE, 0)] }
    \cup { [type |-> "http", status |-> st, body |-> b] : st \in {404, 500}, b \in ErrorBodies }
    \cup { [type |-> "http", status |-> 200, body |-> b] : b \in OkBodies }

\* axios' default validateStatus
IsSuccess(r) == r.type = "http" /\ r.status >= 200 /\ r.status < 300

\* mutant: the body's detail and message are ignored
handleErrorStatusOnly(r) ==
    [message |-> "HTTP " \o ToString(r.status) \o " Error",
     hasStatus |-> r.type = "http", status |-> r.status, isError |-> FALSE]

\* ApiClient.handleError: the ApiError a failed request is rejected with
handleError(r) ==
    IF r.type = "http"
    THEN [message |-> IF Truthy(r.body.detail) THEN r.body.detail
                      ELSE IF Truthy(r.body.message) THEN r.body.message
                      ELSE "HTTP " \o ToString(r.status) \o " Error",
          hasStatus |-> TRUE, status |-> r.status, isError |-> FALSE]
    ELSE IF r.type = "none"
    THEN [message |-> "No response from server. Please check your internet connection.",
          hasStatus |-> FALSE, status |-> 0, isError |-> FALSE]
    ELSE [message |-> IF Truthy(r.body.message) THEN r.body.message
                      ELSE "An unexpected error occurred",
          hasStatus |-> FALSE, status |-> 0, isError |-> FALSE]

\* Number.prototype.toFixed(4) of a confidence given in units of 10^-5:
\* a decimal string with 4 fraction digits, in units of 10^-4, half rounded up
toFixed4(c) == [digits |-> 4, units |-> (c + 5) \div 10]

Return(v) == [kind |-> "return", value |-> v]
Throw(e)  == [kind |-> "throw", error |-> e]

\* AgricultureAPI.detectDisease, from the answer to its POST on
AgricultureDetectDisease(r) ==
    IF IsSuccess(r)
    THEN IF r.body.hasConfidence
         THEN Return([predicted_disease |-> r.body.prediction,
                      confidence |-> toFixed4(r.body.confidence)])
         ELSE Throw([message |-> "Cannot read properties of undefined (reading 'toFixed')",
                     hasStatus |-> FALSE, status |-> 0, isError |-> TRUE])
    ELSE Throw(handleError(r))

(***************************************************************************)
(* TFLiteService.detectDisease.                                            *)
(***************************************************************************)
Fulfilled(v) == [kind |-> "fulfilled", value |-> v]
Rejected(e)  == [kind |-> "rejected", error |-> e]

Placeholder ==
    [predicted_disease |-> "Unable to detect - Please check connection",
     confidence |-> [digits |-> 2, units |-> 0]]

Idle == [pc |-> "idle"]

NotSettled == [none |-> TRUE]

\* mutant: the request is posted a second time
TFLiteDetectStartTwice(img, loaded) ==
    [pc |-> "awaitBackend", image |-> img, remoteCalls |-> 2,
     loadedAtStart |-> loaded, localAttempt |-> "none"]

\* the synchronous part, up to the await: no local inference is attempted,
\* the image is posted to the backend once
TFLiteDetectStart(img, loaded) ==
    [pc |-> "awaitBackend", image |-> img, remoteCalls |-> 1,
     loadedAtStart |-> loaded, localAttempt |-> "none"]

\* mutant: the catch block rethrows
TFLiteDetectSettleRethrow(api) ==
    IF api.kind = "return" THEN Fulfilled(api.value) ELSE Rejected(api.error)

\* the continuation: the backend's result, or the placeholder of the catch
TFLiteDetectSettle(api) ==
    IF api.kind = "return" THEN Fulfilled(api.value) ELSE Fulfilled(Placeholder)

(***************************************************************************)
(* TFLiteService.loadDiseaseModel.                                         *)
(***************************************************************************)
LoadErrorMessage == "Failed to load disease detection model"

NoLoad == [kind |-> "none", message |-> "", loadedBefore |-> FALSE,
           loadedAfter |-> FALSE, afterFailure |-> FALSE]

\* whether some loadDiseaseModel() call has been rejected so far
LoadFailedBefore == loadSettled.afterFailure \/ loadSettled.kind = "rejected"

LoadResolved(before, after) ==
    [kind |-> "resolved", message |-> "", loadedBefore |-> before,
     loadedAfter |-> after, afterFailure |-> LoadFailedBefore]

\* the catch block: throw new Error('Failed to load disease detection model')
LoadRejected(before, after) ==
    [kind |-> "rejected", message |-> LoadErrorMessage, loadedBefore |-> before,
     loadedAfter |-> after, afterFailure |-> LoadFailedBefore]

\* mutant: the loaded flag is not consulted, every call fetches
LoadStartPcAlwaysFetch(loaded) == "fetching"

\* if (this.modelLoaded) return; else the class indices are fetched
LoadStartPc(loaded) == IF loaded THEN "idle" ELSE "fetching"

\* mutant: a load that fails marks the model loaded all the same
LoadJsonFlagAlways(ok, loaded) == TRUE

\* this.modelLoaded = true is reached only when response.json() resolved
LoadJsonFlag(ok, loaded) == IF ok THEN TRUE ELSE loaded

\* the check of the loaded flag, up to the await of fetch
LoadDiseaseModelStart(l) ==
    /\ loaders[l] = "idle"
    /\ loaders' = [loaders EXCEPT ![l] = LoadStartPc(modelLoaded)]
    /\ loadSettled' = (IF modelLoaded THEN LoadResolved(modelLoaded, modelLoaded)
                       ELSE loadSettled)
    /\ settled' = NotSettled
    /\ UNCHANGED notClassify
    /\ UNCHANGED <<modelLoaded, selectedImage, imagePreview, pendingReads, isLoading,
                   result, error, toast, calls>>

\* fetch('/models/class_indices.json') settles: a network error rejects it
LoadFetchSettle(l, ok) ==
    /\ loaders[l] = "fetching"
    /\ loaders' = [loaders EXCEPT ![l] = IF ok THEN "parsing" ELSE "idle"]
    /\ loadSettled' = (IF ok THEN loadSettled ELSE LoadRejected(modelLoaded, modelLoaded))
    /\ settled' = NotSettled
    /\ UNCHANGED notClassify
    /\ UNCHANGED <<modelLoaded, selectedImage, imagePreview, pendingReads, isLoading,
                   result, error, toast, calls>>

\* response.json() settles: a body that is not JSON rejects it
LoadJsonSettle(l, ok) ==
    /\ loaders[l] = "parsing"
    /\ loaders' = [loaders EXCEPT ![l] = "idle"]
    /\ modelLoaded' = LoadJsonFlag(ok, modelLoaded)
    /\ loadSettled' = (IF ok THEN LoadResolved(modelLoaded, modelLoaded')
                       ELSE LoadRejected(modelLoaded, modelLoaded'))
    /\ settled' = NotSettled
    /\ UNCHANGED notClassify
    /\ UNCHANGED <<selectedImage, imagePreview, pendingReads, isLoading,
                   result, error, toast, calls>>

(***************************************************************************)
(* DiseaseDetectionPage.                                                   *)
(***************************************************************************)
Files == [id : Images, isImage : BOOLEAN, tooBig : BOOLEAN]

pageVars == <<selectedImage, imagePreview, pendingReads, isLoading, result, error, toast>>

\* the upload controls are rendered while there is no preview
HandleImageSelect(f) ==
    /\ imagePreview = NoImage
    /\ IF ~f.isImage
       THEN /\ toast' = "selectValidImage"
            /\ UNCHANGED <<selectedImage, result, error, pendingReads>>
       ELSE IF f.tooBig
       THEN /\ toast' = "imageSizeLimit"
            /\ UNCHANGED <<selectedImage, result, error, pendingReads>>
       ELSE /\ selectedImage' = f.id
            /\ result' = Null
            /\ error' = NoError
            /\ pendingReads' = pendingReads \cup {f.id}
            /\ UNCHANGED toast
    /\ settled' = NotSettled
    /\ UNCHANGED notClassify
    /\ UNCHANGED <<imagePreview, isLoading, calls, modelLoaded, loaders, loadSettled>>

\* reader.onload
ReaderLoad(i) ==
    /\ i \in pendingReads
    /\ imagePreview' = i
    /\ pendingReads' = pendingReads \ {i}
    /\ settled' = NotSettled
    /\ UNCHANGED notClassify
    /\ UNCHANGED <<selectedImage, isLoading, result, error, toast, calls, modelLoaded, loaders, loadSettled>>

\* the close button of the preview (always enabled) or the Clear button
ClearImage ==
    /\ imagePreview # NoImage
    /\ selectedImage' = NoImage
    /\ imagePreview' = NoImage
    /\ result' = Null
    /\ error' = NoError
    /\ settled' = NotSettled
    /\ UNCHANGED notClassify
    /\ UNCHANGED <<pendingReads, isLoading, toast, calls, modelLoaded, loaders, loadSettled>>

\* Button: disabled || loading;  ErrorState: rendered while error is set
\* mutant: the detect button stays enabled while a request is in flight
DetectButtonIgnoresLoading == imagePreview # NoImage /\ selectedImage # NoImage

\* the detect button is rendered with the preview, disabled={!selectedImage} loading={isLoading}
DetectButtonEnabled == imagePreview # NoImage /\ selectedImage # NoImage /\ ~isLoading
RetryButtonShown    == error # NoError

FreeCall(c) == calls[c] = Idle /\ \A d \in Calls : d < c => calls[d] # Idle

\* detectDisease up to its await
DetectDisease(c) ==
    /\ FreeCall(c)
    /\ DetectButtonEnabled \/ RetryButtonShown
    /\ IF selectedImage = NoImage
       THEN /\ toast' = "selectImageFirst"
            /\ UNCHANGED <<isLoading, error, result, calls>>
       ELSE /\ isLoading' = TRUE
            /\ error' = NoError
            /\ result' = Null
            /\ calls' = [calls EXCEPT ![c] = TFLiteDetectStart(selectedImage, modelLoaded)]
            /\ UNCHANGED toast
    /\ settled' = NotSettled
    /\ UNCHANGED notClassify
    /\ UNCHANGED <<selectedImage, imagePreview, pendingReads, modelLoaded, loaders, loadSettled>>

\* the backend answers: the continuations of AgricultureAPI.detectDisease,
\* TFLiteService.detectDisease and the page's detectDisease run in turn
BackendRespond(c, r) ==
    /\ calls[c] # Idle
    /\ LET api == AgricultureDetectDisease(r)
           srv == TFLiteDetectSettle(api)
       IN /\ IF srv.kind = "fulfilled"
             THEN /\ result' = srv.value
                  /\ toast' = "detectionCompleted"
                  /\ UNCHANGED error
             ELSE /\ error' = (IF srv.error.isError THEN srv.error.message
                               ELSE "Detection failed")
                  /\ toast' = "detectionFailed"
                  /\ UNCHANGED result
          /\ isLoading' = FALSE
          /\ settled' = [resp |-> r, api |-> api, srv |-> srv,
                         remoteCalls |-> calls[c].remoteCalls,
                         loadedAtStart |-> calls[c].loadedAtStart,
                         localAttempt |-> calls[c].localAttempt]
    /\ calls' = [calls EXCEPT ![c] = Idle]
    /\ UNCHANGED notClassify
    /\ UNCHANGED <<selectedImage, imagePreview, pendingReads, modelLoaded, loaders, loadSettled>>

InitClassify ==
    /\ modelLoaded = FALSE
    /\ loaders = [l \in Loaders |-> "idle"]
    /\ loadSettled = NoLoad
    /\ selectedImage = NoImage
    /\ imagePreview = NoImage
    /\ pendingReads = {}
    /\ isLoading = FALSE
    /\ result = Null
    /\ error = NoError
    /\ toast = "none"
    /\ calls = [c \in Calls |-> Idle]
    /\ settled = NotSettled


NextClassify ==
    \/ \E f \in Files : HandleImageSelect(f)
    \/ \E i \in Images : ReaderLoad(i)
    \/ ClearImage
    \/ \E c \in Calls : DetectDisease(c)
    \/ \E c \in Calls, r \in Responses : BackendRespond(c, r)
    \/ \E l \in Loaders : LoadDiseaseModelStart(l)
    \/ \E l \in Loaders, ok \in BOOLEAN : LoadFetchSettle(l, ok)
    \/ \E l \in Loaders, ok \in BOOLEAN : LoadJsonSettle(l, ok)


(***************************************************************************)
(* CacheService.  localforage is a map from keys to items; each of its     *)
(* calls takes effect atomically when the awaited promise settles.  A      *)
(* CacheService call is one step up to and including its first await, and  *)
(* one more step per further await: set() computes its item from           *)
(* Date.now() before it awaits setItem, get() awaits removeItem after it   *)
(* found an expired item.  Other calls and the clock run in between.  The  *)
(* removeItem of a get() remembers whether a set() call on its key was in  *)
(* flight when the get() read the expired item (racing): the setItem of    *)
(* such a call was issued before the removeItem and is applied before it.  *)
(***************************************************************************)
NoItem == [absent |-> TRUE]
NoMark == [op |-> "none"]
NoRet  == [op |-> "none"]

\* the cached payloads are opaque to the cache: two distinct ones
Values == { [v |-> "cropResult"], [v |-> "yieldResult"] }
TTLs   == {-1, 1}

\* mutant: the ttl is subtracted from Date.now(), not added
CacheItemBackdated(data, t, ttl) ==
    [data |-> data, timestamp |-> t, expires |-> t - ttl]

\* set(): the CacheItem built from the arguments and Date.now()
CacheItem(data, t, ttl) ==
    [data |-> data, timestamp |-> t, expires |-> t + ttl]

\* mutant: an expired item is reported missing but is not removed
GetDecisionNoEvict(item, t) ==
    IF item = NoItem THEN "miss"
    ELSE IF t > item.expires THEN "miss"
    ELSE "hit"

\* get(): what follows the await of getItem
GetDecision(item, t) ==
    IF item = NoItem THEN "miss"
    ELSE IF t > item.expires THEN "evict"
    ELSE "hit"

\* one set() call is suspended at a time; the removeItem of a get() can be
\* pending next to it, one per key
FreeOp == ~\E o \in ops : o.pc = "setItem"

OthersOn(o, k) == \E p \in ops \ {o} : p.key = k

\* set(key, data, expiresInMs) up to its await
CacheSet(k, v, ttl) ==
    /\ FreeOp
    /\ ops' = ops \cup {[pc |-> "setItem", key |-> k, ttl |-> ttl, at |-> now,
                         item |-> CacheItem(v, now, ttl)]}
    /\ lastOn' = [lastOn EXCEPT ![k] = NoMark]
    /\ returned' = NoRet
    /\ UNCHANGED <<store, now>>
    /\ UNCHANGED notCache

\* mutant: the store holds one entry, a new one pushes the others out
SetItemEvicting(st, k, item) == [j \in Keys |-> IF j = k THEN item ELSE NoItem]

\* localforage setItem: the entry of k is created or replaced
SetItem(st, k, item) == [st EXCEPT ![k] = item]

\* setItem settles and set() returns
CacheSetItemDone(o) ==
    /\ o \in ops
    /\ o.pc = "setItem"
    /\ store' = SetItem(store, o.key, o.item)
    /\ lastOn' = [lastOn EXCEPT ![o.key] =
                     IF OthersOn(o, o.key) THEN NoMark
                     ELSE [op |-> "set", data |-> o.item.data, ttl |-> o.ttl, at |-> o.at]]
    /\ returned' = [op |-> "set", key |-> o.key]
    /\ ops' = ops \ {o}
    /\ UNCHANGED now
    /\ UNCHANGED notCache

\* a get() of k is suspended at its removeItem: one such call per key
Evicting(k) == \E o \in ops : o.pc = "removeItem" /\ o.key = k

\* a set() call on k is suspended at its setItem
SetInFlight(k) == \E o \in ops : o.pc = "setItem" /\ o.key = k

\* get(key): getItem settles; a present, unexpired item is returned, an
\* absent one gives null, an expired one is removed first
CacheGet(k) ==
    /\ LET d == GetDecision(store[k], now)
       IN IF d = "evict"
          THEN /\ ~Evicting(k)
               /\ ops' = ops \cup {[pc |-> "removeItem", key |-> k, racing |-> SetInFlight(k)]}
               /\ returned' = NoRet
          ELSE /\ returned' = [op |-> "get", key |-> k, evicted |-> FALSE,
                               ret |-> IF d = "hit" THEN store[k].data ELSE Null]
               /\ UNCHANGED ops
    /\ UNCHANGED <<store, now, lastOn>>
    /\ UNCHANGED notCache

\* removeItem of get() settles and get() returns null
CacheGetRemoveDone(o) ==
    /\ o \in ops
    /\ o.pc = "removeItem"
    /\ store' = [store EXCEPT ![o.key] = NoItem]
    /\ lastOn' = [lastOn EXCEPT ![o.key] = [op |-> "evict"]]
    /\ returned' = [op |-> "get", key |-> o.key, evicted |-> TRUE, ret |-> Null]
    /\ ops' = ops \ {o}
    /\ UNCHANGED now
    /\ UNCHANGED notCache

\* remove(key)
CacheRemove(k) ==
    /\ store' = [store EXCEPT ![k] = NoItem]
    /\ lastOn' = [lastOn EXCEPT ![k] = NoMark]
    /\ returned' = [op |-> "remove", key |-> k]
    /\ UNCHANGED <<now, ops>>
    /\ UNCHANGED notCache

\* clear()
CacheClear ==
    /\ store' = [k \in Keys |-> NoItem]
    /\ lastOn' = [k \in Keys |-> NoMark]
    /\ returned' = [op |-> "clear"]
    /\ UNCHANGED <<now, ops>>
    /\ UNCHANGED notCache

\* keys()
CacheKeys ==
    /\ returned' = [op |-> "keys", ret |-> {k \in Keys : store[k] # NoItem}]
    /\ UNCHANGED <<store, now, ops, lastOn>>
    /\ UNCHANGED notCache

\* the clock advances; nothing else happens
Tick ==
    /\ now < MaxTime
    /\ now' = now + 1
    /\ lastOn' = [k \in Keys |-> IF lastOn[k].op = "set" THEN NoMark ELSE lastOn[k]]
    /\ returned' = NoRet
    /\ UNCHANGED <<store, ops>>
    /\ UNCHANGED notCache

InitCache ==
    /\ store = [k \in Keys |-> NoItem]
    /\ now = 0
    /\ ops = {}
    /\ lastOn = [k \in Keys |-> NoMark]
    /\ returned = NoRet

NextCache ==
    \/ \E k \in Keys, v \in Values, ttl \in TTLs : CacheSet(k, v, ttl)
    \/ \E o \in ops : CacheSetItemDone(o)
    \/ \E k \in Keys : CacheGet(k)
    \/ \E o \in ops : CacheGetRemoveDone(o)
    \/ \E k \in Keys : CacheRemove(k)
    \/ CacheClear
    \/ CacheKeys
    \/ Tick

(***************************************************************************)
(* CacheService.generateLocationKey.  A coordinate is a number of          *)
(* micro-degrees u (the double u / 10^6).  Math.round sees the double      *)
(* product lat * 100, which is the real product except within a rounding   *)
(* error of an exact half: there the product lands on the half or just     *)
(* below it, which fpBelow tells.                                          *)
(***************************************************************************)
Coord(u, b) == [u |-> u, fpBelow |-> b]

IsHalf(u) == u % 10000 = 5000

Coords(S) == { Coord(u, FALSE) : u \in S } \cup { Coord(u, TRUE) : u \in {x \in S : IsHalf(x)} }

LatInputs == Coords({19070001, 19074999, 19075000, 19079999})
LonInputs == Coords({72870002, 72874999, -72875001, -72879999})
Prefixes  == {"crop-recommendation", "yield-prediction"}
NoParams  == "<undefined>"
ExtraParams == {NoParams, "rice"}

KeyInputs == [prefix : Prefixes, lat : LatInputs, lon : LonInputs, extra : ExtraParams]

\* mutant: the coordinate is not rounded
ScaledRoundNone(c) == c.u

\* Math.round(x * 100): the nearest integer, a half going up
ScaledRound(c) ==
    IF IsHalf(c.u) /\ c.fpBelow THEN c.u \div 10000 ELSE (c.u + 5000) \div 10000

\* the template literal's text of the number h / 100
NumberText(h) ==
    LET a == IF h < 0 THEN -h ELSE h
        f == a % 100
    IN (IF h < 0 THEN "-" ELSE "") \o ToString(a \div 100) \o
       (IF f = 0 THEN ""
        ELSE IF f % 10 = 0 THEN "." \o ToString(f \div 10)
        ELSE IF f < 10 THEN ".0" \o ToString(f)
        ELSE "." \o ToString(f))

\* JSON.stringify of the extra parameters the pages pass
JsonStringify(e) == "{\"crop\":\"" \o e \o "\"}"

generateLocationKey(a) ==
    LET roundedLat == ScaledRound(a.lat)
        roundedLon == ScaledRound(a.lon)
        extra == IF a.extra # NoParams THEN "-" \o JsonStringify(a.extra) ELSE ""
    IN a.prefix \o "-" \o NumberText(roundedLat) \o "-" \o NumberText(roundedLon) \o extra

GenerateLocationKey(a) ==
    /\ Len(keyArgs) < MaxKeyCalls
    /\ keyArgs' = Append(keyArgs, a)
    /\ keyOut' = Append(keyOut, generateLocationKey(a))
    /\ UNCHANGED notKey

\* the calls compared are forgotten
ForgetKeys ==
    /\ keyArgs # <<>>
    /\ keyArgs' = <<>>
    /\ keyOut' = <<>>
    /\ UNCHANGED notKey

InitKey == keyArgs = <<>> /\ keyOut = <<>>

NextKey ==
    \/ \E a \in KeyInputs : GenerateLocationKey(a)
    \/ ForgetKeys

(***************************************************************************)
(* getTreatmentInfo.  A raw key is a sequence of pieces: a piece is a      *)
(* whitespace character or a chunk, a non-empty text without whitespace    *)
(* (the code looks at nothing but whitespace inside a key).                *)
(***************************************************************************)
Whitespace == {" ", "\t"}
Chunks == {"Apple", "apple", "scab", "healthy", "Cedar", "rust", "Apple___Apple_scab"}

IsWs(x) == x \in Whitespace

RECURSIVE Flatten(_)
\* the text of a sequence of pieces
Flatten(q) == IF q = <<>> THEN "" ELSE Head(q) \o Flatten(Tail(q))

\* the keys of diseaseTreatments that can be written with the chunks above
TableKeys == {"Apple___Apple_scab", "Apple___Cedar_apple_rust", "Apple___healthy"}

diseaseTreatments(k) ==
    CASE k = "Apple___Apple_scab" -> [name |-> "Apple Scab", severity |-> "Moderate"]
      [] k = "Apple___Cedar_apple_rust" -> [name |-> "Cedar Apple Rust", severity |-> "Moderate"]
      [] k = "Apple___healthy"    -> [name |-> "Healthy Apple", severity |-> "None"]

Lookup(k) == IF k \in TableKeys THEN diseaseTreatments(k) ELSE Null

RECURSIVE TrimStart(_)
TrimStart(q) == IF q # <<>> /\ IsWs(Head(q)) THEN TrimStart(Tail(q)) ELSE q

RECURSIVE TrimEnd(_)
TrimEnd(q) ==
    IF q # <<>> /\ IsWs(q[Len(q)]) THEN TrimEnd(SubSeq(q, 1, Len(q) - 1)) ELSE q

\* String.prototype.trim
Trim(q) == TrimEnd(TrimStart(q))

RECURSIVE CollapseSpaces(_)
\* replace(/\s+/g, ' ')
CollapseSpaces(q) ==
    IF q = <<>> THEN <<>>
    ELSE IF IsWs(Head(q)) THEN <<" ">> \o CollapseSpaces(TrimStart(q))
    ELSE <<Head(q)>> \o CollapseSpaces(Tail(q))

RECURSIVE SplitFrom(_, _)
\* split(' '): cur is the text since the last separator
SplitFrom(q, cur) ==
    IF q = <<>> THEN <<cur>>
    ELSE IF Head(q) = " " THEN <<cur>> \o SplitFrom(Tail(q), "")
    ELSE SplitFrom(Tail(q), cur \o Head(q))

Split(q) == SplitFrom(q, "")

RECURSIVE Join(_, _)
\* Array.prototype.join
Join(parts, sep) ==
    IF parts = <<>> THEN ""
    ELSE IF Len(parts) = 1 THEN parts[1]
    ELSE parts[1] \o sep \o Join(Tail(parts), sep)

\* String.prototype.toLowerCase of a piece
LowerPiece(x) ==
    CASE x = "Apple" -> "apple"
      [] x = "Cedar" -> "cedar"
      [] x = "Apple___Apple_scab" -> "apple___apple_scab"
      [] OTHER -> x

ToLowerCase(q) == [i \in 1..Len(q) |-> LowerPiece(q[i])]

\* mutant: the first separator is a single underscore
ReconstructSingle(parts) == parts[1] \o "_" \o Join(Tail(parts), "_")

\* parts[0] + '___' + parts.slice(1).join('_')
Reconstruct(parts) == parts[1] \o "___" \o Join(Tail(parts), "_")

getTreatmentInfo(diseaseKey) ==
    LET treatment == Lookup(Flatten(diseaseKey))
        cleanKey == Trim(diseaseKey)
        normalizedSpaces == CollapseSpaces(cleanKey)
        parts == Split(normalizedSpaces)
        second == IF Len(parts) >= 3 THEN Lookup(Reconstruct(parts)) ELSE Null
    IN IF treatment # Null THEN treatment
       ELSE IF second # Null THEN second
       ELSE IF Flatten(ToLowerCase(normalizedSpaces)) = "apple apple scab"
       THEN diseaseTreatments("Apple___Apple_scab")
       ELSE Null

Pending == [pending |-> TRUE]

\* the caller's key grows by a chunk (two chunks do not touch) ...
AppendChunk(c) ==
    /\ resolved = Pending
    /\ Len(rawKey) < MaxPieces
    /\ IF rawKey = <<>> THEN TRUE ELSE IsWs(rawKey[Len(rawKey)])
    /\ rawKey' = Append(rawKey, c)
    /\ UNCHANGED resolved
    /\ UNCHANGED notLabel

\* ... or by a whitespace character
AppendSpace(w) ==
    /\ resolved = Pending
    /\ Len(rawKey) < MaxPieces
    /\ rawKey' = Append(rawKey, w)
    /\ UNCHANGED resolved
    /\ UNCHANGED notLabel

\* getTreatmentInfo(rawKey) is called
Resolve ==
    /\ resolved = Pending
    /\ resolved' = getTreatmentInfo(rawKey)
    /\ UNCHANGED rawKey
    /\ UNCHANGED notLabel

InitLabel == rawKey = <<>> /\ resolved = Pending

NextLabel ==
    \/ \E c \in Chunks : AppendChunk(c)
    \/ \E w \in Whitespace : AppendSpace(w)
    \/ Resolve

(***************************************************************************)
(* ApiClient and its callers.  A request is in flight from the call of     *)
(* this.client.get/post to the moment axios settles it: with the server's  *)
(* answer, with a transport failure, or, once the configured timeout has   *)
(* elapsed, with a timeout error, which carries a request and no response. *)
(***************************************************************************)
Timeout == 30000

Requests == 1..MaxRequests

\* the ApiClient methods, and the calls that end in one request
ClientMethods == {"get", "post", "postFormData"}
Callers == ClientMethods \cup {"healthCheck", "isBackendAvailable", "detectDisease"}

NoRequest == [pc |-> "idle"]
NoOutcome == [caller |-> "none"]

\* what axios reports when the timeout fires: error.request, no error.response
NoResponse ==
    [type |-> "none", status |-> 0, body |-> Body(Undefined, Undefined, Undefined, FALSE, 0)]

\* mutant: no timeout is configured (axios' default of 0)
AxiosNoTimeout(elapsed) == FALSE

\* axios aborts a request that has been pending for the configured timeout
AxiosTimedOut(elapsed) == elapsed >= Timeout

\* handleError applied to what the response interceptor already rejected with:
\* an ApiError has neither response nor request
handleErrorAgain(e) ==
    [message |-> IF Truthy(e.message) THEN e.message ELSE "An unexpected error occurred",
     hasStatus |-> FALSE, status |-> 0, isError |-> FALSE]

\* ApiClient.get / post / postFormData: response.data, or the interceptor's rejection
ClientCall(r) == IF IsSuccess(r) THEN Return(r.body) ELSE Throw(handleError(r))

\* ApiClient.healthCheck
ClientHealthCheck(r) ==
    IF IsSuccess(r) THEN Return([status |-> "ok"])
    ELSE Throw(handleErrorAgain(handleError(r)))

\* AgricultureAPI.healthCheck: rethrows what the GET was rejected with
AgricultureHealthCheck(r) ==
    IF IsSuccess(r) THEN Return([status |-> "ok"]) ELSE Throw(handleError(r))

\* mutant: the catch block rethrows
isBackendAvailableRethrow(api) ==
    IF api.kind = "return" THEN Fulfilled(TRUE) ELSE Rejected(api.error)

\* TFLiteService.isBackendAvailable
isBackendAvailable(api) ==
    IF api.kind = "return" THEN Fulfilled(TRUE) ELSE Fulfilled(FALSE)

\* what the caller gets when its request is settled with r
Outcome(caller, r) ==
    CASE caller \in ClientMethods -> ClientCall(r)
      [] caller = "healthCheck" -> ClientHealthCheck(r)
      [] caller = "isBackendAvailable" -> isBackendAvailable(AgricultureHealthCheck(r))
      [] caller = "detectDisease" -> TFLiteDetectSettle(AgricultureDetectDisease(r))

FreeRequest(s) == requests[s] = NoRequest /\ \A t \in Requests : t < s => requests[t] # NoRequest

\* a caller sends its request
ClientRequest(s, caller) ==
    /\ FreeRequest(s)
    /\ requests' = [requests EXCEPT ![s] = [pc |-> "inflight", caller |-> caller, elapsed |-> 0]]
    /\ clientOut' = NoOutcome
    /\ UNCHANGED notClient

\* time passes for every request in flight
ClientTick ==
    /\ \E s \in Requests : requests[s] # NoRequest /\ requests[s].elapsed < Timeout
    /\ requests' = [s \in Requests |->
                      IF requests[s] # NoRequest /\ requests[s].elapsed < Timeout
                      THEN [requests[s] EXCEPT !.elapsed = @ + TickMs]
                      ELSE requests[s]]
    /\ clientOut' = NoOutcome
    /\ UNCHANGED notClient

ClientSettle(s, r, timedOut) ==
    /\ requests' = [requests EXCEPT ![s] = NoRequest]
    /\ clientOut' = [caller |-> requests[s].caller, resp |-> r, timedOut |-> timedOut,
                     outcome |-> Outcome(requests[s].caller, r)]
    /\ UNCHANGED notClient

\* the server's answer, or a transport failure, arrives before the timeout
ClientRespond(s, r) ==
    /\ requests[s] # NoRequest
    /\ ~AxiosTimedOut(requests[s].elapsed)
    /\ ClientSettle(s, r, FALSE)

\* the timeout fires
ClientTimeout(s) ==
    /\ requests[s] # NoRequest
    /\ AxiosTimedOut(requests[s].elapsed)
    /\ ClientSettle(s, NoResponse, TRUE)

InitClient == requests = [s \in Requests |-> NoRequest] /\ clientOut = NoOutcome

NextClient ==
    \/ \E s \in Requests, caller \in Callers : ClientRequest(s, caller)
    \/ ClientTick
    \/ \E s \in Requests, r \in Responses : ClientRespond(s, r)
    \/ \E s \in Requests : ClientTimeout(s)

(***************************************************************************)
(* TFLiteService.preprocessImage.  An image file decodes or not and has a  *)
(* resolution of its own.  A tensor is its shape, its dtype and the set of *)
(* the values it holds; a value is a fraction num / den.                   *)
(***************************************************************************)
Side == 224

ImageFiles == [decodable : BOOLEAN, width : {1, 223, 224, 4000}, height : {1, 224, 225, 3000}]

\* the bytes of a Uint8ClampedArray, sampled
Bytes == {0, 1, 128, 254, 255}
Rasters == {px \in SUBSET Bytes : px # {} /\ Cardinality(px) <= MaxPixelKinds}

\* canvas.width = 224; canvas.height = 224
Canvas == [width |-> Side, height |-> Side]

\* ctx.drawImage(img, 0, 0, dw, dh): the image is scaled into the rectangle;
\* the raster keeps the size of the canvas, px are the bytes it now holds
DrawImage(canvas, img, dw, dh, px) ==
    [width |-> canvas.width, height |-> canvas.height, pixels |-> px]

\* ctx.getImageData(0, 0, sw, sh): RGBA bytes of the rectangle
GetImageData(canvas, sw, sh) ==
    [width |-> sw, height |-> sh, channels |-> 4, data |-> canvas.pixels]

\* mutant: the alpha channel is kept
FromPixelsRGBA(d) ==
    [shape |-> <<d.height, d.width, 4>>, dtype |-> "int32",
     values |-> {[num |-> b, den |-> 1] : b \in d.data}]

\* tf.browser.fromPixels(imageData): numChannels defaults to 3, alpha is dropped
FromPixels(d) ==
    [shape |-> <<d.height, d.width, 3>>, dtype |-> "int32",
     values |-> {[num |-> b, den |-> 1] : b \in d.data}]

\* resizeNearestNeighbor([h, w]): every output value is one of the input's
ResizeNearestNeighbor(t, h, w) == [t EXCEPT !.shape = <<h, w, t.shape[3]>>]

ToFloat(t) == [t EXCEPT !.dtype = "float32"]

\* div(255.0)
Div(t, d) == [t EXCEPT !.values = {[num |-> v.num, den |-> v.den * d] : v \in t.values}]

\* expandDims(0)
ExpandDims(t) == [t EXCEPT !.shape = <<1>> \o @]

\* img.onload of preprocessImage
preprocessImage(img, ctxOk, px) ==
    IF ~ctxOk THEN Rejected([message |-> "Failed to get canvas context"])
    ELSE LET drawn == DrawImage(Canvas, img, Side, Side, px)
             imageData == GetImageData(drawn, Side, Side)
         IN Fulfilled(ExpandDims(Div(ToFloat(
                ResizeNearestNeighbor(FromPixels(imageData), Side, Side)), 255)))

NoImageCall == [pc |-> "idle"]
NoImageOut  == [kind |-> "none"]

\* preprocessImage(imageFile) up to img.src = URL.createObjectURL(imageFile)
PreprocessImage(f) ==
    /\ imgCall = NoImageCall
    /\ imgCall' = [pc |-> "decoding", file |-> f]
    /\ imgOut' = NoImageOut
    /\ UNCHANGED notImage

\* img.onload: the image was decoded
ImgOnLoad(ctxOk, px) ==
    /\ imgCall # NoImageCall
    /\ imgCall.file.decodable
    /\ imgOut' = [kind |-> "settled", file |-> imgCall.file, ctxOk |-> ctxOk,
                  promise |-> preprocessImage(imgCall.file, ctxOk, px)]
    /\ imgCall' = NoImageCall
    /\ UNCHANGED notImage

\* img.onerror: the file is no image
ImgOnError ==
    /\ imgCall # NoImageCall
    /\ ~imgCall.file.decodable
    /\ imgOut' = [kind |-> "settled", file |-> imgCall.file, ctxOk |-> TRUE,
                  promise |-> Rejected([message |-> "Failed to load image"])]
    /\ imgCall' = NoImageCall
    /\ UNCHANGED notImage

InitImage == imgCall = NoImageCall /\ imgOut = NoImageOut

NextImage ==
    \/ \E f \in ImageFiles : PreprocessImage(f)
    \/ \E ctxOk \in BOOLEAN, px \in Rasters : ImgOnLoad(ctxOk, px)
    \/ ImgOnError

(***************************************************************************)
(* The cached queries of the crop-recommendation and yield-prediction      *)
(* pages (pages/YieldPredictionPage.tsx 56-88 and the queryFn of           *)
(* CropRecommendationPage).  One queryFn run reads the cache under the     *)
(* fingerprint of the request, returns what it finds, and otherwise calls  *)
(* the remote API and stores the answer for ten minutes.  The clock counts *)
(* in units of ten minutes here.  react-query may run the queryFn of the   *)
(* two pages, or a retry of one, while an earlier run is still suspended.  *)
(***************************************************************************)
\* set(cacheKey, result, 10 * 60 * 1000): one unit of the clock
QueryTtl == 1

Queries     == 1..MaxQueries
QueryIdle   == [pc |-> "idle"]
NoQueryOut  == [kind |-> "none"]
LocationRequired == "Location is required"

\* AgricultureAPI.predictYield / recommendCrop: a result, or a rejection
QueryAnswers == [ok : {TRUE}, data : Values] \cup {[ok |-> FALSE]}

\* mutant: the cached value is never used
IfCachedNever(cached) == FALSE

\* if (cached) return cached;  get() gives null or the object stored
IfCached(cached) == cached # Null

\* queryFn up to the first await: the location check and the cache key
QueryFnStart(q, k, hasLocation) ==
    /\ queries[q] = QueryIdle
    /\ IF ~hasLocation
         THEN /\ queryOut' = [kind |-> "rejected", key |-> k,
                              message |-> LocationRequired, remote |-> FALSE]
              /\ UNCHANGED queries
         ELSE /\ queries' = [queries EXCEPT ![q] = [pc |-> "getItem", key |-> k]]
              /\ queryOut' = NoQueryOut
    /\ UNCHANGED <<store, now>>
    /\ UNCHANGED notQuery

\* cacheService.get: getItem settles; a live entry is returned to the caller
QueryGetItemDone(q) ==
    /\ queries[q].pc = "getItem"
    /\ LET k == queries[q].key
           d == GetDecision(store[k], now)
           cached == IF d = "hit" THEN store[k].data ELSE Null
       IN  IF d = "evict"
             THEN /\ queries' = [queries EXCEPT ![q] = [pc |-> "removeItem", key |-> k]]
                  /\ queryOut' = NoQueryOut
             ELSE IF IfCached(cached)
               THEN /\ queries' = [queries EXCEPT ![q] = QueryIdle]
                    /\ queryOut' = [kind |-> "fulfilled", key |-> k,
                                    value |-> cached, remote |-> FALSE]
               ELSE /\ queries' = [queries EXCEPT ![q] = [pc |-> "fetch", key |-> k]]
                    /\ queryOut' = NoQueryOut
    /\ UNCHANGED <<store, now>>
    /\ UNCHANGED notQuery

\* cacheService.get: the removeItem of an expired entry settles, get gives null
QueryRemoveItemDone(q) ==
    /\ queries[q].pc = "removeItem"
    /\ store' = [store EXCEPT ![queries[q].key] = NoItem]
    /\ queries' = [queries EXCEPT ![q] = [pc |-> "fetch", key |-> queries[q].key]]
    /\ queryOut' = NoQueryOut
    /\ UNCHANGED now
    /\ UNCHANGED notQuery

\* the remote call settles: a rejection leaves queryFn, a result goes to set()
QueryFetchDone(q, r) ==
    /\ queries[q].pc = "fetch"
    /\ IF r.ok
         THEN /\ queries' = [queries EXCEPT ![q] =
                                [pc |-> "setItem", key |-> queries[q].key, result |-> r.data,
                                 item |-> CacheItem(r.data, now, QueryTtl)]]
              /\ queryOut' = NoQueryOut
         ELSE /\ queries' = [queries EXCEPT ![q] = QueryIdle]
              /\ queryOut' = [kind |-> "rejected", key |-> queries[q].key,
                              message |-> "remote", remote |-> TRUE]
    /\ UNCHANGED <<store, now>>
    /\ UNCHANGED notQuery

\* cacheService.set: setItem settles, queryFn returns the result
QuerySetItemDone(q) ==
    /\ queries[q].pc = "setItem"
    /\ store' = SetItem(store, queries[q].key, queries[q].item)
    /\ queries' = [queries EXCEPT ![q] = QueryIdle]
    /\ queryOut' = [kind |-> "fulfilled", key |-> queries[q].key,
                    value |-> queries[q].result, remote |-> TRUE]
    /\ UNCHANGED now
    /\ UNCHANGED notQuery

QueryTick ==
    /\ now < MaxQueryTime
    /\ now' = now + 1
    /\ queryOut' = NoQueryOut
    /\ UNCHANGED <<store, queries>>
    /\ UNCHANGED notQuery

InitQuery ==
    /\ queries = [q \in Queries |-> QueryIdle]
    /\ queryOut = NoQueryOut

NextQuery ==
    \/ \E q \in Queries, k \in Keys, hasLocation \in BOOLEAN : QueryFnStart(q, k, hasLocation)
    \/ \E q \in Queries : QueryGetItemDone(q)
    \/ \E q \in Queries : QueryRemoveItemDone(q)
    \/ \E q \in Queries, r \in QueryAnswers : QueryFetchDone(q, r)
    \/ \E q \in Queries : QuerySetItemDone(q)
    \/ QueryTick

(***************************************************************************)
(* The severity badge of the detection result                              *)
(* (pages/DiseaseDetectionPage.tsx 272-316, data/diseaseTreatments.ts).    *)
(* The page looks the predicted class up in diseaseTreatments and colours  *)
(* the severity of the record with getSeverityColor at its next render.    *)
(***************************************************************************)
\* the key and the severity of each of the 38 records of diseaseTreatments
SeverityTable ==
    {
      <<"Apple___Apple_scab", "Moderate">>,
      <<"Apple___Black_rot", "High">>,
      <<"Apple___Cedar_apple_rust", "Moderate">>,
      <<"Apple___healthy", "None">>,
      <<"Blueberry___healthy", "None">>,
      <<"Cherry_(including_sour)___Powdery_mildew", "Moderate">>,
      <<"Cherry_(including_sour)___healthy", "None">>,
      <<"Corn_(maize)___Cercospora_leaf_spot Gray_leaf_spot", "Moderate to High">>,
      <<"Corn_(maize)___Common_rust_", "Moderate">>,
      <<"Corn_(maize)___Northern_Leaf_Blight", "High">>,
      <<"Corn_(maize)___healthy", "None">>,
      <<"Grape___Black_rot", "High">>,
      <<"Grape___Esca_(Black_Measles)", "High">>,
      <<"Grape___Leaf_blight_(Isariopsis_Leaf_Spot)", "Moderate">>,
      <<"Grape___healthy", "None">>,
      <<"Orange___Haunglongbing_(Citrus_greening)", "Very High (Fatal)">>,
      <<"Peach___Bacterial_spot", "Moderate to High">>,
      <<"Peach___healthy", "None">>,
      <<"Pepper,_bell___Bacterial_spot", "Moderate">>,
      <<"Pepper,_bell___healthy", "None">>,
      <<"Potato___Early_blight", "Moderate to High">>,
      <<"Potato___Late_blight", "Very High">>,
      <<"Potato___healthy", "None">>,
      <<"Raspberry___healthy", "None">>,
      <<"Soybean___healthy", "None">>,
      <<"Squash___Powdery_mildew", "Moderate">>,
      <<"Strawberry___Leaf_scorch", "Moderate">>,
      <<"Strawberry___healthy", "None">>,
      <<"Tomato___Bacterial_spot", "Moderate">>,
      <<"Tomato___Early_blight", "Moderate to High">>,
      <<"Tomato___Late_blight", "Very High">>,
      <<"Tomato___Leaf_Mold", "Moderate">>,
      <<"Tomato___Septoria_leaf_spot", "Moderate">>,
      <<"Tomato___Spider_mites Two-spotted_spider_mite", "Moderate">>,
      <<"Tomato___Target_Spot", "Moderate">>,
      <<"Tomato___Tomato_Yellow_Leaf_Curl_Virus", "High">>,
      <<"Tomato___Tomato_mosaic_virus", "High">>,
      <<"Tomato___healthy", "None">>
    }

TreatmentKeys == {p[1] : p \in SeverityTable}
SeverityOf(k) == (CHOOSE p \in SeverityTable : p[1] = k)[2]

\* String.prototype.toLowerCase on the severities of the table
SeverityToLowerCase(s) ==
    CASE s = "None" -> "none"
      [] s = "Moderate" -> "moderate"
      [] s = "High" -> "high"
      [] s = "Very High" -> "very high"
      [] s = "Very High (Fatal)" -> "very high (fatal)"
      [] s = "Moderate to High" -> "moderate to high"
      [] OTHER -> s

DefaultColor == "text-gray-600 bg-gray-100"

getSeverityColor(severity) ==
    LET s == SeverityToLowerCase(severity)
    IN CASE s = "none" -> "text-green-600 bg-green-100"
         [] s = "moderate" -> "text-yellow-600 bg-yellow-100"
         [] s = "high" -> "text-red-600 bg-red-100"
         [] s \in {"very high", "very high (fatal)"} -> "text-red-800 bg-red-200"
         [] OTHER -> DefaultColor

NoPrediction == ""
NoBadge == "<none>"

\* setResult(prediction) with a class of the table; the badge on screen is
\* the one of the previous render until the page renders again
SetPrediction(k) ==
    /\ shownKey' = k
    /\ badgeFresh' = FALSE
    /\ UNCHANGED badge
    /\ UNCHANGED notSeverity

\* the render: getSeverityColor(treatmentInfo.severity)
RenderBadge ==
    /\ shownKey # NoPrediction
    /\ ~badgeFresh
    /\ badge' = getSeverityColor(SeverityOf(shownKey))
    /\ badgeFresh' = TRUE
    /\ UNCHANGED shownKey
    /\ UNCHANGED notSeverity

InitSeverity ==
    /\ shownKey = NoPrediction
    /\ badge = NoBadge
    /\ badgeFresh = FALSE

NextSeverity ==
    \/ \E k \in TreatmentKeys : SetPrediction(k)
    \/ RenderBadge

(***************************************************************************)
(* ProfitCalculatorCard (components/ProfitCalculatorCard.tsx): the form    *)
(* state, the submit button and handleSubmit with its one remote call.     *)
(***************************************************************************)
CoordTexts == {"", "18.52", "abc"}
Districts  == {"", " ", "Pune"}
GeoLocation == [lat |-> "19.07", lon |-> "72.87"]

\* parseFloat on the coordinate texts
ParseFloat(s) == IF s = "18.52" THEN "18.52" ELSE "NaN"

\* String.prototype.trim on the district texts
TrimDistrict(d) == IF d = " " THEN "" ELSE d

getEffectiveLocation ==
    IF profitCoords.useCustom /\ Truthy(profitCoords.lat) /\ Truthy(profitCoords.lon)
    THEN [lat |-> ParseFloat(profitCoords.lat), lon |-> ParseFloat(profitCoords.lon)]
    ELSE profitLocation

LocationRequiredForWeather ==
    "Location is required for weather data. Please enable location access or enter coordinates."
DistrictRequired == "District is required for market price data."
ProfitFailed == "Failed to calculate profit and sustainability metrics"

\* what AgricultureAPI.calculateProfitSustainability settles with
ProfitAnswers ==
    { [ok |-> TRUE, data |-> [roi |-> "12%", message |-> Undefined]],
      [ok |-> TRUE, data |-> [roi |-> Undefined, message |-> "No market data"]] }
    \cup { [ok |-> FALSE, message |-> m] : m \in {Undefined, "", "HTTP 500 Error"} }

\* the submit button: disabled={!getEffectiveLocation() || loading || !formData.district.trim()}
SubmitEnabled ==
    /\ getEffectiveLocation # Null
    /\ ~profitLoading
    /\ Truthy(TrimDistrict(profitDistrict))

\* mutant: the catch block leaves the previous result in place
CatchResultKept(previous) == previous

\* the catch block: setResult(null)
CatchResult(previous) == Null

ToggleCustomCoordinates ==
    /\ profitCoords' = [profitCoords EXCEPT !.useCustom = ~profitCoords.useCustom]
    /\ UNCHANGED <<profitLocation, profitDistrict, profitResult, profitLoading, profitError, profitCalls>>
    /\ UNCHANGED notProfit

HandleCoordinateChange(field, value) ==
    /\ profitCoords' = [profitCoords EXCEPT ![field] = value]
    /\ UNCHANGED <<profitLocation, profitDistrict, profitResult, profitLoading, profitError, profitCalls>>
    /\ UNCHANGED notProfit

\* useGeolocation hands the component a position, or none
GeolocationUpdate(loc) ==
    /\ profitLocation' = loc
    /\ UNCHANGED <<profitCoords, profitDistrict, profitResult, profitLoading, profitError, profitCalls>>
    /\ UNCHANGED notProfit

\* handleFormChange('district', value)
HandleFormChange(d) ==
    /\ profitDistrict' = d
    /\ UNCHANGED <<profitCoords, profitLocation, profitResult, profitLoading, profitError, profitCalls>>
    /\ UNCHANGED notProfit

\* a click on the enabled submit button: handleSubmit up to its await
HandleSubmit ==
    /\ SubmitEnabled
    /\ profitCalls < MaxProfitCalls
    /\ IF getEffectiveLocation = Null
       THEN /\ profitError' = LocationRequiredForWeather
            /\ UNCHANGED <<profitLoading, profitCalls>>
       ELSE IF ~Truthy(TrimDistrict(profitDistrict))
       THEN /\ profitError' = DistrictRequired
            /\ UNCHANGED <<profitLoading, profitCalls>>
       ELSE /\ profitLoading' = TRUE
            /\ profitError' = NoError
            /\ profitCalls' = profitCalls + 1
    /\ UNCHANGED <<profitCoords, profitLocation, profitDistrict, profitResult>>
    /\ UNCHANGED notProfit

\* the remote call settles: try, catch and finally of handleSubmit
ProfitRespond(r) ==
    /\ profitCalls > 0
    /\ IF r.ok
       THEN /\ profitResult' = r.data
            /\ UNCHANGED profitError
       ELSE /\ profitError' = (IF Truthy(r.message) THEN r.message ELSE ProfitFailed)
            /\ profitResult' = CatchResult(profitResult)
    /\ profitLoading' = FALSE
    /\ profitCalls' = profitCalls - 1
    /\ UNCHANGED <<profitCoords, profitLocation, profitDistrict>>
    /\ UNCHANGED notProfit

\* onRetry of the error panel: setError(null)
ProfitRetry ==
    /\ profitError # NoError
    /\ profitError' = NoError
    /\ UNCHANGED <<profitCoords, profitLocation, profitDistrict, profitResult, profitLoading, profitCalls>>
    /\ UNCHANGED notProfit

InitProfit ==
    /\ profitCoords = [lat |-> "", lon |-> "", useCustom |-> FALSE]
    /\ profitLocation = Null
    /\ profitDistrict = ""
    /\ profitResult = Null
    /\ profitLoading = FALSE
    /\ profitError = NoError
    /\ profitCalls = 0

NextProfit ==
    \/ ToggleCustomCoordinates
    \/ \E field \in {"lat", "lon"}, value \in CoordTexts : HandleCoordinateChange(field, value)
    \/ \E loc \in {Null, GeoLocation} : GeolocationUpdate(loc)
    \/ \E d \in Districts : HandleFormChange(d)
    \/ HandleSubmit
    \/ \E r \in ProfitAnswers : ProfitRespond(r)
    \/ ProfitRetry

(***************************************************************************)
(* NumericInput (components/NumericInput.tsx) as the crop-recommendation   *)
(* form uses it for N, P, K and pH.  Numbers are counted in tenths.        *)
(***************************************************************************)
\* the min and max props of the four inputs: 0..300, 0..150 and 0..250 kg/ha
\* and 3.5..9.5
NumericFields ==
    [nitrogen |-> [min |-> 0, max |-> 3000], phosphorus |-> [min |-> 0, max |-> 1500],
     potassium |-> [min |-> 0, max |-> 2500], ph |-> [min |-> 35, max |-> 95]]
NumericFieldNames == {"nitrogen", "phosphorus", "potassium", "ph"}

\* what e.target.value of an <input type="number"> can hold
InputTexts == {"", "2", "7.2", "12", "-1", "300"}

NaN == [nan |-> TRUE]
Num(v) == [nan |-> FALSE, v |-> v]

\* parseFloat on the input texts, in tenths
parseFloat(text) ==
    CASE text = "2" -> Num(20)
      [] text = "7.2" -> Num(72)
      [] text = "12" -> Num(120)
      [] text = "-1" -> Num(-10)
      [] text = "300" -> Num(3000)
      [] OTHER -> NaN

MathMax(a, b) == IF a >= b THEN a ELSE b
MathMin(a, b) == IF a <= b THEN a ELSE b

NoChange == [called |-> FALSE]

\* NumericInput.handleChange with both min and max given: the call of
\* onChange it makes, if any
handleChange(min, max, text) ==
    LET newValue == parseFloat(text)
    IN IF newValue # NaN
       THEN [called |-> TRUE, value |-> MathMin(max, MathMax(min, newValue.v))]
       ELSE IF text = ""
       THEN [called |-> TRUE, value |-> 0]
       ELSE NoChange

\* the user edits one of the inputs; onChange is handleFormChange(field, value)
NumericEdit(field, text) ==
    LET call == handleChange(NumericFields[field].min, NumericFields[field].max, text)
    IN /\ numericChange' = [field |-> field, text |-> text, call |-> call]
       /\ numericForm' = IF call.called THEN [numericForm EXCEPT ![field] = call.value]
                         ELSE numericForm
       /\ UNCHANGED notNumeric

InitNumeric ==
    /\ numericForm = [nitrogen |-> 500, phosphorus |-> 500, potassium |-> 500, ph |-> 70]
    /\ numericChange = [field |-> "none", text |-> "", call |-> NoChange]

NextNumeric == \E field \in NumericFieldNames, text \in InputTexts : NumericEdit(field, text)

(***************************************************************************)
(* appSlice (services/cacheService.ts 204-250): the redux slice with the   *)
(* theme, the online flag and the location state, and its six reducers.    *)
(***************************************************************************)
Themes == {"light", "dark"}
LocationPayloads == { [lat |-> "19.07", lon |-> "72.87"], [lat |-> "18.52", lon |-> "73.85"] }
ErrorPayloads == {"", "User denied Geolocation"}

\* initialState, given navigator.onLine
initialState(onLine) ==
    [theme |-> "light", isOnline |-> onLine, location |-> Null,
     locationError |-> NoError, locationLoading |-> FALSE]

setTheme(state, payload) == [state EXCEPT !.theme = payload]

setOnlineStatus(state, payload) == [state EXCEPT !.isOnline = payload]

setLocationLoading(state, payload) == [state EXCEPT !.locationLoading = payload]

setLocation(state, payload) ==
    [state EXCEPT !.location = payload, !.locationError = NoError, !.locationLoading = FALSE]

\* mutant: the location is kept when an error is recorded
setLocationErrorKeepsLocation(state, payload) ==
    [state EXCEPT !.locationError = payload, !.locationLoading = FALSE]

setLocationError(state, payload) ==
    [state EXCEPT !.locationError = payload, !.location = Null, !.locationLoading = FALSE]

clearLocationError(state) == [state EXCEPT !.locationError = NoError]

\* store.dispatch(action): the reducer named by the action gives the next state
Dispatch(type, next) ==
    /\ appState' = next
    /\ appLast' = [type |-> type, before |-> appState]
    /\ UNCHANGED notApp

\* the browser starts online; the offline state is the one after
\* setOnlineStatus(false)
InitApp ==
    /\ appState = initialState(TRUE)
    /\ appLast = [type |-> "none", before |-> appState]

NextApp ==
    \/ \E p \in Themes : Dispatch("setTheme", setTheme(appState, p))
    \/ \E p \in BOOLEAN : Dispatch("setOnlineStatus", setOnlineStatus(appState, p))
    \/ \E p \in BOOLEAN : Dispatch("setLocationLoading", setLocationLoading(appState, p))
    \/ \E p \in LocationPayloads : Dispatch("setLocation", setLocation(appState, p))
    \/ \E p \in ErrorPayloads : Dispatch("setLocationError", setLocationError(appState, p))
    \/ Dispatch("clearLocationError", clearLocationError(appState))

InitAll == InitClassify /\ InitCache /\ InitKey /\ InitLabel /\ InitClient /\ InitImage /\ InitQuery /\ InitSeverity /\ InitProfit /\ InitNumeric /\ InitApp

SpecClassify == InitAll /\ [][NextClassify]_vars
SpecCache    == InitAll /\ [][NextCache]_vars
SpecKey      == InitAll /\ [][NextKey]_vars
SpecLabel    == InitAll /\ [][NextLabel]_vars

SpecImage    == InitAll /\ [][NextImage]_vars
SpecApp == InitAll /\ [][NextApp]_vars
SpecNumeric == InitAll /\ [][NextNumeric]_vars
SpecProfit == InitAll /\ [][NextProfit]_vars
SpecSeverity == InitAll /\ [][NextSeverity]_vars
SpecQuery == InitAll /\ [][NextQuery]_vars

\* time passes, and the event loop runs a timer that is due
SpecClient   ==
    /\ InitAll
    /\ [][NextClient]_vars
    /\ WF_vars(ClientTick)
    /\ \A s \in Requests : WF_vars(ClientTimeout(s))


(***************************************************************************)
(* Properties of the disease-detection pipeline (SpecClassify).            *)
(***************************************************************************)
\* the remote classification failed: no usable {prediction, confidence} came back
RemoteFailed(r) ==
    ~(IsSuccess(r) /\ r.body.prediction # Undefined /\ r.body.hasConfidence)

\* C1: whenever the remote classification call fails, the promise of
\* tfliteService.detectDisease is fulfilled, never rejected, and the page's
\* handler ends with isLoading = false.
C1_ServiceAlwaysResolves ==
    (settled # NotSettled /\ RemoteFailed(settled.resp))
        => (settled.srv.kind = "fulfilled" /\ isLoading = FALSE)

C1_Witness ==
    /\ settled # NotSettled
    /\ settled.resp.type = "none"
    /\ settled.api.kind = "throw"
    /\ settled.srv.kind = "fulfilled"
    /\ isLoading = FALSE

\* C2: when a classification fails, the page ends in its error state (error
\* set, result null, no success toast), never in its success state.
C2_FailureEndsInErrorState ==
    (settled # NotSettled /\ RemoteFailed(settled.resp))
        => (error # NoError /\ result = Null /\ toast # "detectionCompleted")

\* C3: a non-2xx answer with a detail field makes tfliteService.detectDisease
\* fail with an error whose message is that detail (HTTP 500 with
\* {"detail":"model overloaded"} gives "model overloaded"), never a generic result.
C3_DetailSurfaced ==
    (/\ settled # NotSettled
     /\ settled.resp.type = "http"
     /\ ~IsSuccess(settled.resp)
     /\ Truthy(settled.resp.body.detail))
        => (/\ settled.srv.kind = "rejected"
            /\ settled.srv.error.message = settled.resp.body.detail)

\* C4: a classification for which local inference is available (the model is
\* loaded when it starts) sends no request to the backend; the backend is
\* called only after a local attempt reported the model unavailable or failed.
C4_RemoteOnlyAfterLocalFailure ==
    \A c \in Calls :
        (calls[c] # Idle /\ calls[c].remoteCalls > 0)
            => (/\ ~calls[c].loadedAtStart
                /\ calls[c].localAttempt \in {"unavailable", "failed"})

FreshSet(k) == lastOn[k].op = "set" /\ lastOn[k].ttl > 0 /\ lastOn[k].at = now

\* C6: set(k, v, ttl) with a positive ttl, then get(k) with no clock advance
\* since the set() was called and no other operation on k in between, returns
\* v (and does not take the expired branch).
C6_SetThenGetReturnsValue ==
    /\ (returned.op = "get" /\ FreshSet(returned.key))
          => returned.ret = lastOn[returned.key].data
    /\ \A o \in ops : o.pc = "removeItem" => ~FreshSet(o.key)

C6_Witness ==
    /\ returned.op = "get"
    /\ FreshSet(returned.key)
    /\ now > 0
    /\ returned.ret = [v |-> "yieldResult"]

\* C7: a get(k) that finds the entry expired (Date.now() > expires) returns
\* null and leaves k out of the store, so a keys() that follows does not list
\* k; a get never returns an expired entry; and an entry leaves the store only
\* by such a get, by remove(k) or by clear(): the clock alone removes nothing.
C7_ExpiredGetEvicts ==
    /\ [](/\ (returned.op = "get" /\ returned.evicted)
                => (returned.ret = Null /\ store[returned.key] = NoItem)
          /\ (returned.op = "get" /\ ~returned.evicted /\ store[returned.key] # NoItem)
                => (now <= store[returned.key].expires
                    /\ returned.ret = store[returned.key].data)
          /\ returned.op = "keys"
                => \A k \in Keys : lastOn[k].op = "evict" => k \notin returned.ret)
    /\ [][\A k \in Keys :
             (store[k] # NoItem /\ store'[k] = NoItem)
                => \/ returned'.op = "clear"
                   \/ returned'.op = "remove" /\ returned'.key = k
                   \/ returned'.op = "get" /\ returned'.key = k /\ returned'.evicted]_vars

C7_Witness ==
    /\ returned.op = "keys"
    /\ \E k \in Keys : lastOn[k].op = "evict" /\ k \notin returned.ret
    /\ now = MaxTime

(***************************************************************************)
(* Properties of generateLocationKey (SpecKey).                            *)
(***************************************************************************)
Abs(n) == IF n < 0 THEN -n ELSE n

\* the coordinate cut after its 2nd decimal place, and what follows it
Cut2(c)  == [negative |-> c.u < 0, hundredths |-> Abs(c.u) \div 10000]
Rest2(c) == Abs(c.u) % 10000

SameTo2Decimals(a, b) ==
    /\ a.prefix = b.prefix
    /\ a.extra = b.extra
    /\ Cut2(a.lat) = Cut2(b.lat)
    /\ Cut2(a.lon) = Cut2(b.lon)

SameSide(c, d) ==
    \/ Rest2(c) < 5000 /\ Rest2(d) < 5000
    \/ Rest2(c) > 5000 /\ Rest2(d) > 5000

\* C8 (as stated): two coordinate pairs that differ only beyond the 2nd
\* decimal place, with the same prefix and extra parameters, get the same key.
C8_SameDecimalsSameKey ==
    \A i, j \in 1..Len(keyArgs) :
        SameTo2Decimals(keyArgs[i], keyArgs[j]) => keyOut[i] = keyOut[j]

\* C8 (amended): they get the same key when, in addition, what follows the
\* 2nd decimal place is on the same side of 0.005 in both latitudes and in
\* both longitudes.
C8_SameCellSameKey ==
    \A i, j \in 1..Len(keyArgs) :
        (/\ SameTo2Decimals(keyArgs[i], keyArgs[j])
         /\ SameSide(keyArgs[i].lat, keyArgs[j].lat)
         /\ SameSide(keyArgs[i].lon, keyArgs[j].lon))
            => keyOut[i] = keyOut[j]

C8_Witness ==
    /\ Len(keyArgs) = 2
    /\ keyArgs[1] = [prefix |-> "crop-recommendation", lat |-> Coord(19070001, FALSE),
                     lon |-> Coord(72870002, FALSE), extra |-> "rice"]
    /\ keyArgs[2] = [prefix |-> "crop-recommendation", lat |-> Coord(19074999, FALSE),
                     lon |-> Coord(72874999, FALSE), extra |-> "rice"]
    /\ keyOut[1] = "crop-recommendation-19.07-72.87-{\"crop\":\"rice\"}"
    /\ keyOut[2] = keyOut[1]

(***************************************************************************)
(* Properties of getTreatmentInfo (SpecLabel).                             *)
(***************************************************************************)
\* chunks separated by exactly one space each
SingleSpaced(q) ==
    /\ Len(q) % 2 = 1
    /\ \A i \in 1..Len(q) : IF i % 2 = 1 THEN q[i] \in Chunks ELSE q[i] = " "

RECURSIVE RestOf(_, _)
\* "_<C>_<D>..." of the chunks of q from position i on
RestOf(q, i) == IF i > Len(q) THEN "" ELSE "_" \o q[i] \o RestOf(q, i + 2)

\* "<A>___<B>_<rest...>" of the single-spaced "<A> <B> <rest...>"
Canonical(q) == q[1] \o "___" \o q[3] \o RestOf(q, 5)

\* C9: a raw key "<A> <B> <rest...>" with single spaces whose canonical form
\* "<A>___<B>_<rest...>" is a table key resolves to the record of that key.
C9_SingleSpacedResolvesCanonical ==
    (/\ resolved # Pending
     /\ SingleSpaced(rawKey)
     /\ Len(rawKey) >= 5
     /\ Canonical(rawKey) \in TableKeys)
        => resolved = diseaseTreatments(Canonical(rawKey))

C9_Witness ==
    /\ rawKey = <<"Apple", " ", "Cedar", " ", "apple", " ", "rust">>
    /\ resolved = [name |-> "Cedar Apple Rust", severity |-> "Moderate"]

\* C10: a raw key that is no table key is looked up as firstToken + "___" +
\* remainingTokens.join("_") for any number of remaining tokens; here, for
\* exactly one: "Apple healthy" resolves to the record of "Apple___healthy".
C10_TwoTokenKeyResolves ==
    (/\ resolved # Pending
     /\ SingleSpaced(rawKey)
     /\ Len(rawKey) = 3
     /\ Flatten(rawKey) \notin TableKeys)
        => resolved = Lookup(rawKey[1] \o "___" \o rawKey[3])

\* the key the two-stage normalization reconstructs from a raw key
Normalized(q) == Reconstruct(Split(CollapseSpaces(Trim(q))))

\* C11: a raw key for which neither the exact key nor the key reconstructed
\* by the two-stage normalization is in the table resolves to null: the
\* hard-coded "apple apple scab" case adds no match of its own.
C11_NoMatchBeyondGeneralRule ==
    (/\ resolved # Pending
     /\ Flatten(rawKey) \notin TableKeys
     /\ Normalized(rawKey) \notin TableKeys)
        => resolved = Null

\* the canonical key a raw key stands for: itself when it is a table key,
\* else the reconstructed one
CanonicalOf(q) == IF Flatten(q) \in TableKeys THEN Flatten(q) ELSE Normalized(q)

\* C12: a table key resolves to its own record, and a raw key resolves to
\* what the canonical key it normalizes to resolves to.
C12_IdempotentPure ==
    resolved # Pending
        => /\ Flatten(rawKey) \in TableKeys => resolved = diseaseTreatments(Flatten(rawKey))
           /\ resolved = getTreatmentInfo(<<CanonicalOf(rawKey)>>)

(***************************************************************************)
(* Properties of the model loader (SpecClassify).                          *)
(***************************************************************************)
\* C13: nothing is being loaded when the service has been constructed, and a
\* classification request issued while the model is not loaded starts a load.
C13_LoadStartedByFirstRequest ==
    /\ \A l \in Loaders : loaders[l] = "idle"
    /\ [][(\E c \in Calls : calls[c] = Idle /\ calls'[c] # Idle /\ ~modelLoaded)
             => (\E l \in Loaders : loaders[l] = "idle" /\ loaders'[l] = "fetching")]_vars

\* C14: a loadDiseaseModel() call that fails is rejected with an Error and
\* leaves the loaded flag as it was; whatever failed before, while the model
\* is not loaded a caller can start a load, which fetches again; and only a
\* load that succeeded sets the flag.
C14_LoadFailureIsNoLockout ==
    /\ loadSettled.kind = "rejected"
          => /\ loadSettled.message = LoadErrorMessage
             /\ loadSettled.loadedAfter = loadSettled.loadedBefore
    /\ \A l \in Loaders :
          (LoadFailedBefore /\ ~modelLoaded /\ loaders[l] = "idle")
             => ENABLED (LoadDiseaseModelStart(l) /\ loaders'[l] = "fetching")
    /\ (loadSettled.kind = "resolved" /\ ~loadSettled.loadedBefore)
          => (loadSettled.loadedAfter /\ modelLoaded)

C14_Witness ==
    /\ loadSettled.kind = "resolved"
    /\ loadSettled.afterFailure
    /\ ~loadSettled.loadedBefore
    /\ modelLoaded

\* C15: at most one fetch of the model asset is in flight at any time.
C15_AtMostOneFetchInFlight ==
    Cardinality({l \in Loaders : loaders[l] = "fetching"}) <= 1

(***************************************************************************)
(* Properties of the remote calls (SpecClassify, SpecClient).              *)
(***************************************************************************)
NoResponseMessage == "No response from server. Please check your internet connection."

\* a field of the body that is present: defined and not empty
Present(x) == x # Undefined /\ x # ""

\* C16: a get/post/postFormData request answered with a non-2xx status is
\* rejected with that status and with the body's detail if present, else the
\* body's message if present, else "HTTP <status> Error"; one that gets no
\* response is rejected with the connectivity message and no status.
C16_RejectionCarriesStatusAndMessage ==
    clientOut.caller \in ClientMethods
        => LET r == clientOut.resp
               o == clientOut.outcome
           IN /\ (r.type = "http" /\ (r.status < 200 \/ r.status > 299))
                    => /\ o.kind = "throw"
                       /\ o.error.hasStatus
                       /\ o.error.status = r.status
                       /\ o.error.message =
                            (IF Present(r.body.detail) THEN r.body.detail
                             ELSE IF Present(r.body.message) THEN r.body.message
                             ELSE IF r.status = 404 THEN "HTTP 404 Error"
                             ELSE "HTTP 500 Error")
              /\ r.type = "none"
                    => /\ o.kind = "throw"
                       /\ ~o.error.hasStatus
                       /\ o.error.message = NoResponseMessage

C16_Witness ==
    /\ clientOut.caller = "postFormData"
    /\ clientOut.resp.type = "http"
    /\ clientOut.resp.status = 500
    /\ clientOut.resp.body.detail = ""
    /\ clientOut.resp.body.message = "bad request"
    /\ clientOut.outcome = Throw([message |-> "bad request", hasStatus |-> TRUE,
                                  status |-> 500, isError |-> FALSE])

\* C17: a 2xx answer of the disease endpoint without a prediction or without
\* a confidence makes AgricultureAPI.detectDisease fail, and no result it
\* returns has an undefined predicted_disease or confidence.
C17_InvalidBodyFails ==
    (settled # NotSettled /\ IsSuccess(settled.resp))
        => /\ (settled.resp.body.prediction = Undefined \/ ~settled.resp.body.hasConfidence)
                 => settled.api.kind = "throw"
           /\ settled.api.kind = "return"
                 => settled.api.value.predicted_disease # Undefined

C19_BackendAvailableNeverRejects ==
    clientOut.caller = "isBackendAvailable"
        => LET r == clientOut.resp
               o == clientOut.outcome
           IN /\ o.kind = "fulfilled"
              /\ (r.type # "http" \/ r.status < 200 \/ r.status > 299) => o.value = FALSE
              /\ o.value = TRUE => (r.type = "http" /\ r.status = 200)

C19_Witness ==
    /\ clientOut.caller = "isBackendAvailable"
    /\ clientOut.resp.type = "http"
    /\ clientOut.resp.status = 500
    /\ clientOut.outcome = Fulfilled(FALSE)

C21_ConcurrentCallsKeepEntries ==
    [][/\ \A k \in Keys :
             store'[k] # store[k]
                => \/ returned'.op = "clear"
                   \/ returned'.op \in {"set", "get", "remove"} /\ returned'.key = k
       /\ \A o \in ops \ ops' :
             (o.pc = "removeItem" /\ store'[o.key] = NoItem)
                => ~(o.racing /\ store[o.key] # NoItem /\ now <= store[o.key].expires)]_vars

\* the keys that have an entry
Entries(st) == {k \in Keys : st[k] # NoItem}

C22_CacheAfterFetchAndHitSkipsRemote ==
    [][/\ \A k \in Keys :
             (store'[k] # store[k] /\ store'[k] # NoItem)
                => \E q \in Queries :
                      /\ queries[q].pc = "setItem" /\ queries[q].key = k
                      /\ queries'[q] = QueryIdle
                      /\ store'[k].data = queries[q].result
                      /\ queryOut' = [kind |-> "fulfilled", key |-> k,
                                      value |-> queries[q].result, remote |-> TRUE]
       /\ queryOut'.kind = "rejected" => store' = store
       /\ \A q \in Queries :
             (/\ queries[q].pc = "getItem" /\ queries'[q] # queries[q]
              /\ store[queries[q].key] # NoItem
              /\ now <= store[queries[q].key].expires)
                => /\ queries'[q] = QueryIdle
                   /\ queryOut' = [kind |-> "fulfilled", key |-> queries[q].key,
                                   value |-> store[queries[q].key].data, remote |-> FALSE]]_vars

C22_Witness ==
    /\ queryOut.kind = "fulfilled" /\ ~queryOut.remote
    /\ store[queryOut.key] # NoItem /\ store[queryOut.key].data = queryOut.value
    /\ now = store[queryOut.key].expires
    /\ \E q \in Queries : queries[q].pc = "fetch"

\* C24: the loaded flag of the service changes only from not loaded to loaded,
\* in the step in which a loadDiseaseModel() call ends successfully; once
\* loaded it stays loaded, and every loadDiseaseModel() call made from then on
\* returns at once, resolved, without fetching.
C24_LoadedFlagIsMonotone ==
    [][/\ modelLoaded' # modelLoaded
             => /\ ~modelLoaded /\ modelLoaded'
                /\ \E l \in Loaders : loaders[l] = "parsing" /\ loaders'[l] = "idle"
                /\ loadSettled'.kind = "resolved"
       /\ modelLoaded => modelLoaded'
       /\ \A l \in Loaders :
             (modelLoaded /\ loaders[l] = "idle") => loaders'[l] = "idle"
       /\ (loadSettled' # loadSettled /\ loadSettled'.loadedBefore /\ loaders' = loaders)
             => loadSettled'.kind = "resolved" /\ loadSettled'.loadedAfter]_vars

C24_Witness ==
    /\ modelLoaded
    /\ loadSettled.kind = "resolved"
    /\ loadSettled.loadedBefore
    /\ \E l \in Loaders : loaders[l] # "idle"

(***************************************************************************)
(* Properties of the disease-detection page (SpecClassify).                *)
(***************************************************************************)
InFlight == {c \in Calls : calls[c] # Idle}

\* C25: at most one classification request of the page is in flight, and the
\* page is loading exactly while one is; so each result is delivered before
\* the next request is submitted.
C25_OneRequestInFlight ==
    /\ Cardinality(InFlight) <= 1
    /\ isLoading <=> InFlight # {}

C25_Witness ==
    /\ InFlight # {}
    /\ isLoading
    /\ toast = "detectionCompleted"

\* C27: a prediction of the backend is set as the result only by the request
\* that classified the image that is selected at that moment, and every change
\* of the selected image clears the result; so a result on the page is that
\* of the selected image.
C27_ResultIsOfSelectedImage ==
    [][/\ \A c \in Calls :
             (/\ calls[c] # Idle /\ calls'[c] = Idle
              /\ result' # Null /\ settled'.api.kind = "return")
                => calls[c].image = selectedImage'
       /\ selectedImage' # selectedImage => result' = Null]_vars

(***************************************************************************)
(* Properties of the severity badge (SpecSeverity).                        *)
(***************************************************************************)
SeverityEnum == {"None", "Moderate", "High", "Very High"}

\* C26: the severity of the record of the treatment table that the page
\* shows, whichever record it is, is one of None, Moderate, High and Very
\* High, and the badge rendered for it never has the colour of the default
\* branch of getSeverityColor.
C26_TableSeverityInEnum ==
    /\ shownKey # NoPrediction => SeverityOf(shownKey) \in SeverityEnum
    /\ badgeFresh => badge # DefaultColor

(***************************************************************************)
(* Properties of ProfitCalculatorCard (SpecProfit).                        *)
(***************************************************************************)
\* C28: error and result are never both non-null; a remote call is made only
\* when there is an effective location and the district is not blank; and
\* loading is false whenever no request is in flight.
C28_ErrorExcludesResult ==
    /\ [](~(profitError # NoError /\ profitResult # Null))
    /\ [](profitCalls = 0 => ~profitLoading)
    /\ [][profitCalls' > profitCalls
             => (getEffectiveLocation # Null /\ TrimDistrict(profitDistrict) # "")]_vars

C28_Witness ==
    /\ profitError = ProfitFailed
    /\ profitResult = Null
    /\ profitCalls = 0 /\ ~profitLoading
    /\ TrimDistrict(profitDistrict) = ""

(***************************************************************************)
(* Properties of NumericInput (SpecNumeric).                               *)
(***************************************************************************)
\* C29: with min and max given, every value handleChange passes to onChange
\* lies between min and max, whatever the text: below min, above max or empty.
C29_OnChangeWithinRange ==
    (numericChange.field # "none" /\ numericChange.call.called)
       => /\ numericChange.call.value >= NumericFields[numericChange.field].min
          /\ numericChange.call.value <= NumericFields[numericChange.field].max

(***************************************************************************)
(* Properties of appSlice (SpecApp).                                       *)
(***************************************************************************)
\* C30: after any sequence of the six actions, location and locationError are
\* never both non-null; locationLoading is false right after setLocation and
\* after setLocationError; and setTheme and setOnlineStatus leave location,
\* locationError and locationLoading as they were.
C30_LocationStateConsistent ==
    /\ ~(appState.location # Null /\ appState.locationError # NoError)
    /\ appLast.type \in {"setLocation", "setLocationError"} => ~appState.locationLoading
    /\ appLast.type \in {"setTheme", "setOnlineStatus"}
          => /\ appState.location = appLast.before.location
             /\ appState.locationError = appLast.before.locationError
             /\ appState.locationLoading = appLast.before.locationLoading

C30_Witness ==
    /\ appLast.type = "setLocationError"
    /\ appLast.before.location # Null
    /\ appLast.before.locationLoading
    /\ appState.location = Null /\ appState.locationError # NoError
    /\ appState.theme = "dark"

====
